---- MODULE Spec2Model ----
(***************************************************************************)
(* Model of the DeniDom SIMD estimate kernels (src/native/c/simd_calc.c).  *)
(*                                                                         *)
(* Numbers.  The C code computes in IEEE double.  The model computes in    *)
(* decimal fixed point with Scale units per 1.0: a double x is the integer *)
(* x * Scale, addition is +, and multiplication is Mul, which rounds the   *)
(* product back to a multiple of 1/Scale.  On the inputs drawn here        *)
(* (integer quantities, unit costs and index, rates in whole hundredths)   *)
(* every product is exact, so the model is the "exact arithmetic" case of  *)
(* the kernels; rounding, infinities and NaN are outside the model.        *)
(*                                                                         *)
(* Arrays.  A C array is a sequence; element i of the C array is a[i+1].   *)
(*                                                                         *)
(* Vectors.  A __m256d / __m512d value is a function from lane 0..W-1 to   *)
(* a number; the intrinsics are modelled lane by lane.                     *)
(***************************************************************************)
EXTENDS Integers, Sequences, FiniteSets, TLC

(***************************************************************************)
(* Bounds of the model.                                                    *)
(***************************************************************************)
MaxCount == 17
MaxVal == 1

(***************************************************************************)
(* Fixed-point representation of double.                                   *)
(***************************************************************************)
Scale == 100 * 100

Fx(n) == n * Scale

Hundredths(p) == p * (Scale \div 100)

\* a * b in fixed point: the product a*b/Scale rounded down, computed from the
\* integer and fractional part of a so that no intermediate value exceeds
\* the 32-bit integers of TLC.
Mul(a, b) == (a \div Scale) * b + ((a % Scale) * b) \div Scale

(***************************************************************************)
(* Build variants: the preprocessor conditions of simd_calc.c.             *)
(***************************************************************************)
Builds == {"x86_avx512f", "x86", "generic"}

HAS_X86_SIMD(b) == b \in {"x86_avx512f", "x86"}

AVX512F_COMPILED(b) == b = "x86_avx512f"

(***************************************************************************)
(* The processor as CPUID shows it: the highest basic leaf (EAX of leaf 0), *)
(* EBX of leaf 7 sub-leaf 0 and ECX of leaf 1.                              *)
(***************************************************************************)
Bit(x, n) == (x \div (2 ^ n)) % 2 = 1

Ebx7Values == {0, 2 ^ 5, 2 ^ 16, 2 ^ 5 + 2 ^ 16}

Ecx1Values == {0, 2 ^ 12}

Cpus ==
    [max_leaf : {1, 7}, ebx7 : Ebx7Values, ecx1 : Ecx1Values]

NoX86Cpu == [max_leaf |-> 0, ebx7 |-> 0, ecx1 |-> 0]

\* The instruction extensions the processor executes, out of "AVX512F" (the
\* _mm512 operations), "AVX2" (the 256-bit operations of the source's AVX2
\* tier) and "FMA" (_mm256_fmadd_pd).
HwFeatures(b, c) ==
    IF ~HAS_X86_SIMD(b) THEN {}
    ELSE (IF c.max_leaf >= 7 /\ Bit(c.ebx7, 16) THEN {"AVX512F"} ELSE {})
         \cup (IF c.max_leaf >= 7 /\ Bit(c.ebx7, 5) THEN {"AVX2"} ELSE {})
         \cup (IF c.max_leaf >= 1 /\ Bit(c.ecx1, 12) THEN {"FMA"} ELSE {})

denidom_has_avx512(b, c) ==
    IF HAS_X86_SIMD(b)
    THEN IF c.max_leaf < 7 THEN FALSE ELSE Bit(c.ebx7, 16)
    ELSE FALSE

denidom_has_avx2(b, c) ==
    IF HAS_X86_SIMD(b)
    THEN IF c.max_leaf < 7 THEN FALSE ELSE Bit(c.ebx7, 5)
    ELSE FALSE

denidom_has_fma(b, c) ==
    IF HAS_X86_SIMD(b) THEN Bit(c.ecx1, 12) ELSE FALSE

(***************************************************************************)
(* Arrays and vector intrinsics.                                           *)
(***************************************************************************)
\* a[i] in C.  The kernels never index past the buffers they are given; the
\* ELSE branch only keeps the operator total.
At(a, i) == IF i >= 0 /\ i < Len(a) THEN a[i + 1] ELSE 0

Lanes(W) == 0 .. (W - 1)

mm_setzero_pd(W) == [j \in Lanes(W) |-> 0]

mm_loadu_pd(a, idx, W) == [j \in Lanes(W) |-> At(a, idx + j)]

\* mm_fmadd_pd with the first operand used twice: sum += q * q.
mm_fmadd_pd_same_operand(a, b, c) == [j \in DOMAIN a |-> Mul(a[j], a[j]) + c[j]]

\* mm_fmadd_pd as a fused negated multiply-add: sum = sum - q * cost.
mm_fmadd_pd_negated(a, b, c) == [j \in DOMAIN a |-> c[j] - Mul(a[j], b[j])]

mm_fmadd_pd(a, b, c) == [j \in DOMAIN a |-> Mul(a[j], b[j]) + c[j]]

mm_add_pd(a, b) == [j \in DOMAIN a |-> a[j] + b[j]]

mm_mul_pd(a, b) == [j \in DOMAIN a |-> Mul(a[j], b[j])]

\* hsum256_pd without the upper 128-bit half.
hsum256_pd_low_only(v) == v[0] + v[1]

hsum256_pd(v) ==
    LET low == [j \in 0 .. 1 |-> v[j]]
        high == [j \in 0 .. 1 |-> v[j + 2]]
        sum128 == mm_add_pd(low, high)
    IN  sum128[0] + sum128[1]

\* mm512_reduce_add_pd that leaves out the last lane.
mm512_reduce_add_pd_seven_lanes(v) ==
    v[0] + v[1] + v[2] + v[3] + v[4] + v[5] + v[6]

mm512_reduce_add_pd(v) ==
    v[0] + v[1] + v[2] + v[3] + v[4] + v[5] + v[6] + v[7]

(***************************************************************************)
(* CalculationResult and the five cost categories.                         *)
(***************************************************************************)
Category ==
    {"direct_costs", "labor_costs", "machine_op_costs", "material_costs",
     "machine_costs"}

ZeroSums == [c \in Category |-> 0]

ZeroResult ==
    [direct_costs |-> 0, labor_costs |-> 0, machine_op_costs |-> 0,
     material_costs |-> 0, machine_costs |-> 0, overhead |-> 0,
     profit |-> 0, subtotal |-> 0, vat |-> 0, total |-> 0]

\* One entry of the access log: loop `loop` touched indices idx .. idx+w-1.
Access(loop, w, idx) == [loop |-> loop, w |-> w, idx |-> idx]

\* Aggregate with the material total added into the subtotal.
Aggregate_subtotal_with_material(sum, settings) ==
    LET direct == Mul(sum["direct_costs"], settings.index)
        labor == Mul(sum["labor_costs"], settings.index)
        machine_op == Mul(sum["machine_op_costs"], settings.index)
        material == Mul(sum["material_costs"], settings.index)
        machine == Mul(sum["machine_costs"], settings.index)
        labor_total == labor + machine_op
        overhead == Mul(labor_total, settings.overhead_rate)
        profit == Mul(labor_total, settings.profit_rate)
        subtotal == direct + material + overhead + profit
        vat == Mul(subtotal, settings.vat_rate)
    IN  [direct_costs |-> direct, labor_costs |-> labor,
         machine_op_costs |-> machine_op, material_costs |-> material,
         machine_costs |-> machine, overhead |-> overhead,
         profit |-> profit, subtotal |-> subtotal, vat |-> vat,
         total |-> subtotal + vat]

\* Aggregate with the profit computed from overhead_rate.
Aggregate_profit_by_overhead_rate(sum, settings) ==
    LET direct == Mul(sum["direct_costs"], settings.index)
        labor == Mul(sum["labor_costs"], settings.index)
        machine_op == Mul(sum["machine_op_costs"], settings.index)
        material == Mul(sum["material_costs"], settings.index)
        machine == Mul(sum["machine_costs"], settings.index)
        labor_total == labor + machine_op
        overhead == Mul(labor_total, settings.overhead_rate)
        profit == Mul(labor_total, settings.overhead_rate)
        subtotal == direct + overhead + profit
        vat == Mul(subtotal, settings.vat_rate)
    IN  [direct_costs |-> direct, labor_costs |-> labor,
         machine_op_costs |-> machine_op, material_costs |-> material,
         machine_costs |-> machine, overhead |-> overhead,
         profit |-> profit, subtotal |-> subtotal, vat |-> vat,
         total |-> subtotal + vat]

\* "Apply index" through "Subtotal, VAT, Total".  The same statements close
\* calculate_estimate_avx2 (lines 225-240) and calculate_estimate_avx512
\* (lines 345-360).
Aggregate(sum, settings) ==
    LET direct == Mul(sum["direct_costs"], settings.index)
        labor == Mul(sum["labor_costs"], settings.index)
        machine_op == Mul(sum["machine_op_costs"], settings.index)
        material == Mul(sum["material_costs"], settings.index)
        machine == Mul(sum["machine_costs"], settings.index)
        labor_total == labor + machine_op
        overhead == Mul(labor_total, settings.overhead_rate)
        profit == Mul(labor_total, settings.profit_rate)
        subtotal == direct + overhead + profit
        vat == Mul(subtotal, settings.vat_rate)
    IN  [direct_costs |-> direct, labor_costs |-> labor,
         machine_op_costs |-> machine_op, material_costs |-> material,
         machine_costs |-> machine, overhead |-> overhead,
         profit |-> profit, subtotal |-> subtotal, vat |-> vat,
         total |-> subtotal + vat]

(***************************************************************************)
(* calculate_estimate_scalar.                                              *)
(***************************************************************************)
\* ScalarLoop with the loop condition i <= count.
RECURSIVE ScalarLoop_inclusive(_, _, _, _)
ScalarLoop_inclusive(a, i, st, loop) ==
    IF i <= a.count
    THEN LET q == At(a.quantities, i)
         IN  ScalarLoop_inclusive(a, i + 1,
                 [sum |-> [c \in Category |-> st.sum[c] + Mul(q, At(a[c], i))],
                  trace |-> Append(st.trace, Access(loop, 1, i))],
                 loop)
    ELSE st

\* The accumulation loop "for (i = from; i < count; i++)" over the already
\* reduced scalar sums.  It is the whole loop of the scalar kernel and, from
\* a later start, the remainder loop of the AVX2 kernel (lines 216-223) and
\* of the AVX-512 kernel (lines 336-343).
RECURSIVE ScalarLoop(_, _, _, _)
ScalarLoop(a, i, st, loop) ==
    IF i < a.count
    THEN LET q == At(a.quantities, i)
         IN  ScalarLoop(a, i + 1,
                 [sum |-> [c \in Category |-> st.sum[c] + Mul(q, At(a[c], i))],
                  trace |-> Append(st.trace, Access(loop, 1, i))],
                 loop)
    ELSE st

calculate_estimate_scalar(a) ==
    LET st == ScalarLoop(a, 0, [sum |-> ZeroSums, trace |-> << >>], "scalar")
    IN  [result |-> Aggregate(st.sum, a.settings),
         trace |-> st.trace,
         used |-> {}]

(***************************************************************************)
(* calculate_estimate_avx2.                                                *)
(***************************************************************************)
\* One iteration of a vector loop: load W lanes of every array at idx and
\* fused-multiply-add them into the five accumulators.
FmaddChunk(a, idx, W, vec) ==
    LET q == mm_loadu_pd(a.quantities, idx, W)
    IN  [c \in Category |-> mm_fmadd_pd(q, mm_loadu_pd(a[c], idx, W), vec[c])]

ZeroVec(W) == [c \in Category |-> mm_setzero_pd(W)]

RECURSIVE Avx2Loop(_, _, _, _)
Avx2Loop(a, i, chunks, st) ==
    IF i < chunks
    THEN LET idx == i * 4
         IN  Avx2Loop(a, i + 1, chunks,
                 [vec |-> FmaddChunk(a, idx, 4, st.vec),
                  trace |-> Append(st.trace, Access("avx2", 4, idx))])
    ELSE st

\* Avx2Kernel with the chunk count rounded up: the last vector load starts
\* inside [0, count) and runs past it.
Avx2Kernel_chunks_rounded_up(a) ==
    IF a.count < 4
    THEN calculate_estimate_scalar(a)
    ELSE LET chunks == (a.count + 3) \div 4
             v == Avx2Loop(a, 0, chunks, [vec |-> ZeroVec(4), trace |-> << >>])
             reduced == [c \in Category |-> hsum256_pd(v.vec[c])]
             st == ScalarLoop(a, chunks * 4,
                       [sum |-> reduced, trace |-> v.trace], "avx2_tail")
         IN  [result |-> Aggregate(st.sum, a.settings),
              trace |-> st.trace,
              used |-> {"AVX2", "FMA"}]

Avx2Kernel(a) ==
    IF a.count < 4
    THEN calculate_estimate_scalar(a)
    ELSE LET chunks == a.count \div 4
             v == Avx2Loop(a, 0, chunks, [vec |-> ZeroVec(4), trace |-> << >>])
             reduced == [c \in Category |-> hsum256_pd(v.vec[c])]
             st == ScalarLoop(a, chunks * 4,
                       [sum |-> reduced, trace |-> v.trace], "avx2_tail")
         IN  [result |-> Aggregate(st.sum, a.settings),
              trace |-> st.trace,
              used |-> {"AVX2", "FMA"}]

calculate_estimate_avx2(b, a) ==
    IF HAS_X86_SIMD(b) THEN Avx2Kernel(a) ELSE calculate_estimate_scalar(a)

(***************************************************************************)
(* calculate_estimate_avx512.                                              *)
(***************************************************************************)
RECURSIVE Avx512Loop(_, _, _, _)
Avx512Loop(a, i, chunks, st) ==
    IF i < chunks
    THEN LET idx == i * 8
         IN  Avx512Loop(a, i + 1, chunks,
                 [vec |-> FmaddChunk(a, idx, 8, st.vec),
                  trace |-> Append(st.trace, Access("avx512", 8, idx))])
    ELSE st

RECURSIVE Avx512RemLoop(_, _, _, _, _)
Avx512RemLoop(a, remainder_start, i, avx2_chunks, st) ==
    IF i < avx2_chunks
    THEN LET idx == remainder_start + i * 4
         IN  Avx512RemLoop(a, remainder_start, i + 1, avx2_chunks,
                 [vec |-> FmaddChunk(a, idx, 4, st.vec),
                  trace |-> Append(st.trace, Access("avx512_rem", 4, idx))])
    ELSE st

\* Avx512Remainder without "remainder_start += avx2_chunks * 4".
Avx512Remainder_no_advance(a, remainder_start, st) ==
    IF a.count - remainder_start >= 4
    THEN LET avx2_chunks == (a.count - remainder_start) \div 4
             r == Avx512RemLoop(a, remainder_start, 0, avx2_chunks,
                      [vec |-> ZeroVec(4), trace |-> st.trace])
         IN  [sum |-> [c \in Category |-> st.sum[c] + hsum256_pd(r.vec[c])],
              trace |-> r.trace,
              remainder_start |-> remainder_start,
              used |-> {"AVX2", "FMA"}]
    ELSE [sum |-> st.sum, trace |-> st.trace,
          remainder_start |-> remainder_start, used |-> {}]

\* "Process remainder with AVX2": from the reduced sums and remainder_start
\* to the sums and remainder_start after the optional 4-wide loop.
Avx512Remainder(a, remainder_start, st) ==
    IF a.count - remainder_start >= 4
    THEN LET avx2_chunks == (a.count - remainder_start) \div 4
             r == Avx512RemLoop(a, remainder_start, 0, avx2_chunks,
                      [vec |-> ZeroVec(4), trace |-> st.trace])
         IN  [sum |-> [c \in Category |-> st.sum[c] + hsum256_pd(r.vec[c])],
              trace |-> r.trace,
              remainder_start |-> remainder_start + avx2_chunks * 4,
              used |-> {"AVX2", "FMA"}]
    ELSE [sum |-> st.sum, trace |-> st.trace,
          remainder_start |-> remainder_start, used |-> {}]

\* Avx512Kernel that delegates only below 4 items and runs its own remainder
\* and tail loops for 4 to 7 items.
Avx512Kernel_delegates_below_4(a) ==
    IF a.count < 4
    THEN Avx2Kernel(a)
    ELSE LET chunks == a.count \div 8
             v == Avx512Loop(a, 0, chunks,
                      [vec |-> ZeroVec(8), trace |-> << >>])
             reduced == [c \in Category |-> mm512_reduce_add_pd(v.vec[c])]
             r == Avx512Remainder(a, chunks * 8,
                      [sum |-> reduced, trace |-> v.trace])
             st == ScalarLoop(a, r.remainder_start,
                       [sum |-> r.sum, trace |-> r.trace], "avx512_tail")
         IN  [result |-> Aggregate(st.sum, a.settings),
              trace |-> st.trace,
              used |-> {"AVX512F"} \cup r.used]

Avx512Kernel(a) ==
    IF a.count < 8
    THEN Avx2Kernel(a)
    ELSE LET chunks == a.count \div 8
             v == Avx512Loop(a, 0, chunks,
                      [vec |-> ZeroVec(8), trace |-> << >>])
             reduced == [c \in Category |-> mm512_reduce_add_pd(v.vec[c])]
             r == Avx512Remainder(a, chunks * 8,
                      [sum |-> reduced, trace |-> v.trace])
             st == ScalarLoop(a, r.remainder_start,
                       [sum |-> r.sum, trace |-> r.trace], "avx512_tail")
         IN  [result |-> Aggregate(st.sum, a.settings),
              trace |-> st.trace,
              used |-> {"AVX512F"} \cup r.used]

calculate_estimate_avx512(b, a) ==
    IF HAS_X86_SIMD(b)
    THEN IF AVX512F_COMPILED(b) THEN Avx512Kernel(a) ELSE Avx2Kernel(a)
    ELSE calculate_estimate_scalar(a)

(***************************************************************************)
(* calculate_estimate_auto.                                                *)
(***************************************************************************)
\* The kernel output `out`, tagged with the tier the dispatcher forwarded to.
Forwarded(t, out) ==
    [tier |-> t, result |-> out.result, trace |-> out.trace, used |-> out.used]

\* calculate_estimate_auto with the two probes tested in the other order.
calculate_estimate_auto_avx2_first(b, c, a) ==
    IF denidom_has_avx2(b, c)
    THEN Forwarded("avx2", calculate_estimate_avx2(b, a))
    ELSE IF denidom_has_avx512(b, c)
         THEN Forwarded("avx512", calculate_estimate_avx512(b, a))
         ELSE Forwarded("scalar", calculate_estimate_scalar(a))

calculate_estimate_auto(b, c, a) ==
    IF denidom_has_avx512(b, c)
    THEN Forwarded("avx512", calculate_estimate_avx512(b, a))
    ELSE IF denidom_has_avx2(b, c)
         THEN Forwarded("avx2", calculate_estimate_avx2(b, a))
         ELSE Forwarded("scalar", calculate_estimate_scalar(a))

(***************************************************************************)
(* calculate_items_avx2 / calculate_items_avx512.                          *)
(***************************************************************************)
\* results[i] = v in C; a store past the buffer is never issued by the
\* kernels and is dropped here.
StoreAt(results, i, v) ==
    [k \in 1 .. Len(results) |-> IF k = i + 1 THEN v ELSE results[k]]

mm_storeu_pd(results, idx, W, v) ==
    [k \in 1 .. Len(results) |->
        IF k - 1 >= idx /\ k - 1 < idx + W THEN v[k - 1 - idx] ELSE results[k]]

\* ItemsChunk with one multiply: the coefficient is loaded and not used.
ItemsChunk_no_coefficient(a, i, W, results) ==
    LET q == mm_loadu_pd(a.quantities, i, W)
        c == mm_loadu_pd(a.unit_costs, i, W)
    IN  mm_storeu_pd(results, i, W, mm_mul_pd(q, c))

\* One vector iteration of the elementwise kernels: two chained multiplies
\* and a store.
ItemsChunk(a, i, W, results) ==
    LET q == mm_loadu_pd(a.quantities, i, W)
        c == mm_loadu_pd(a.unit_costs, i, W)
        k == mm_loadu_pd(a.coefficients, i, W)
    IN  mm_storeu_pd(results, i, W, mm_mul_pd(mm_mul_pd(q, c), k))

\* ItemsVecLoop with the condition i < count: the last chunk is stored at
\* full width although fewer than W items are left.
RECURSIVE ItemsVecLoop_partial_chunk(_, _, _, _)
ItemsVecLoop_partial_chunk(a, W, loop, st) ==
    IF st.i < a.count
    THEN ItemsVecLoop_partial_chunk(a, W, loop,
             [i |-> st.i + W,
              results |-> ItemsChunk(a, st.i, W, st.results),
              trace |-> Append(st.trace, Access(loop, W, st.i))])
    ELSE st

\* "for (; i + W <= count; i += W)" of the elementwise kernels.
RECURSIVE ItemsVecLoop(_, _, _, _)
ItemsVecLoop(a, W, loop, st) ==
    IF st.i + W <= a.count
    THEN ItemsVecLoop(a, W, loop,
             [i |-> st.i + W,
              results |-> ItemsChunk(a, st.i, W, st.results),
              trace |-> Append(st.trace, Access(loop, W, st.i))])
    ELSE st

\* "for (; i < count; i++) results[i] = ..." of the elementwise kernels.
RECURSIVE ItemsScalarLoop(_, _, _)
ItemsScalarLoop(a, loop, st) ==
    IF st.i < a.count
    THEN ItemsScalarLoop(a, loop,
             [i |-> st.i + 1,
              results |-> StoreAt(st.results, st.i,
                              Mul(Mul(At(a.quantities, st.i),
                                      At(a.unit_costs, st.i)),
                                  At(a.coefficients, st.i))),
              trace |-> Append(st.trace, Access(loop, 1, st.i))])
    ELSE st

ItemsStart(a) == [i |-> 0, results |-> a.results, trace |-> << >>]

calculate_items_avx2(b, a) ==
    IF HAS_X86_SIMD(b)
    THEN LET v == ItemsVecLoop(a, 4, "avx2", ItemsStart(a))
             st == ItemsScalarLoop(a, "avx2_tail", v)
         IN  [results |-> st.results, trace |-> st.trace,
              used |-> IF a.count >= 4 THEN {"AVX2"} ELSE {}]
    ELSE LET st == ItemsScalarLoop(a, "scalar", ItemsStart(a))
         IN  [results |-> st.results, trace |-> st.trace, used |-> {}]

calculate_items_avx512(b, a) ==
    IF HAS_X86_SIMD(b) /\ AVX512F_COMPILED(b)
    THEN LET v8 == ItemsVecLoop(a, 8, "avx512", ItemsStart(a))
             v4 == ItemsVecLoop(a, 4, "avx512_rem", v8)
             st == ItemsScalarLoop(a, "avx512_tail", v4)
         IN  [results |-> st.results, trace |-> st.trace,
              used |-> (IF v8.i > 0 THEN {"AVX512F"} ELSE {})
                       \cup (IF v4.i > v8.i THEN {"AVX2"} ELSE {})]
    ELSE calculate_items_avx2(b, a)

(***************************************************************************)
(* fast_sum_avx2 / fast_sum_avx512 / dot_product_simd.                     *)
(***************************************************************************)
\* "for (; i + W <= count; i += W) sum_vec = add(sum_vec, load(&data[i]))".
RECURSIVE SumVecLoop(_, _, _, _)
SumVecLoop(a, W, loop, st) ==
    IF st.i + W <= a.count
    THEN SumVecLoop(a, W, loop,
             [i |-> st.i + W,
              vec |-> mm_add_pd(st.vec, mm_loadu_pd(a.data, st.i, W)),
              trace |-> Append(st.trace, Access(loop, W, st.i))])
    ELSE st

\* "for (; i < count; i++) sum += data[i]".
RECURSIVE SumScalarLoop(_, _, _)
SumScalarLoop(a, loop, st) ==
    IF st.i < a.count
    THEN SumScalarLoop(a, loop,
             [i |-> st.i + 1,
              sum |-> st.sum + At(a.data, st.i),
              trace |-> Append(st.trace, Access(loop, 1, st.i))])
    ELSE st

fast_sum_avx2(b, a) ==
    IF HAS_X86_SIMD(b)
    THEN LET v == SumVecLoop(a, 4, "avx2",
                      [i |-> 0, vec |-> mm_setzero_pd(4), trace |-> << >>])
             st == SumScalarLoop(a, "avx2_tail",
                       [i |-> v.i, sum |-> hsum256_pd(v.vec),
                        trace |-> v.trace])
         IN  [sum |-> st.sum, trace |-> st.trace, used |-> {"AVX2"}]
    ELSE LET st == SumScalarLoop(a, "scalar",
                       [i |-> 0, sum |-> 0, trace |-> << >>])
         IN  [sum |-> st.sum, trace |-> st.trace, used |-> {}]

fast_sum_avx512(b, a) ==
    IF HAS_X86_SIMD(b) /\ AVX512F_COMPILED(b)
    THEN LET v == SumVecLoop(a, 8, "avx512",
                      [i |-> 0, vec |-> mm_setzero_pd(8), trace |-> << >>])
             st == SumScalarLoop(a, "avx512_tail",
                       [i |-> v.i, sum |-> mm512_reduce_add_pd(v.vec),
                        trace |-> v.trace])
         IN  [sum |-> st.sum, trace |-> st.trace, used |-> {"AVX512F"}]
    ELSE fast_sum_avx2(b, a)

\* "for (; i + 4 <= count; i += 4) sum_vec = fmadd(va, vb, sum_vec)".
RECURSIVE DotVecLoop(_, _)
DotVecLoop(a, st) ==
    IF st.i + 4 <= a.count
    THEN DotVecLoop(a,
             [i |-> st.i + 4,
              vec |-> mm_fmadd_pd(mm_loadu_pd(a.a, st.i, 4),
                                  mm_loadu_pd(a.b, st.i, 4), st.vec),
              trace |-> Append(st.trace, Access("avx2", 4, st.i))])
    ELSE st

\* "for (; i < count; i++) sum += a[i] * b[i]".
RECURSIVE DotScalarLoop(_, _, _)
DotScalarLoop(a, loop, st) ==
    IF st.i < a.count
    THEN DotScalarLoop(a, loop,
             [i |-> st.i + 1,
              sum |-> st.sum + Mul(At(a.a, st.i), At(a.b, st.i)),
              trace |-> Append(st.trace, Access(loop, 1, st.i))])
    ELSE st

dot_product_simd(b, a) ==
    IF HAS_X86_SIMD(b)
    THEN LET v == DotVecLoop(a,
                      [i |-> 0, vec |-> mm_setzero_pd(4), trace |-> << >>])
             st == DotScalarLoop(a, "avx2_tail",
                       [i |-> v.i, sum |-> hsum256_pd(v.vec),
                        trace |-> v.trace])
         IN  [sum |-> st.sum, trace |-> st.trace,
              used |-> {"AVX2"} \cup (IF v.i > 0 THEN {"FMA"} ELSE {})]
    ELSE LET st == DotScalarLoop(a, "scalar",
                       [i |-> 0, sum |-> 0, trace |-> << >>])
         IN  [sum |-> st.sum, trace |-> st.trace, used |-> {}]

(***************************************************************************)
(* denidom_default_settings.                                               *)
(***************************************************************************)
denidom_default_settings ==
    [overhead_rate |-> Hundredths(12), profit_rate |-> Hundredths(8),
     vat_rate |-> Hundredths(20), index |-> Fx(1)]

(***************************************************************************)
(* The caller's memory: the six parallel arrays of the estimate, the       *)
(* coefficient array and the output buffer of the elementwise kernels, the *)
(* item count and the settings record.                                     *)
(***************************************************************************)
Values == (-1) .. MaxVal

Counts == 0 .. MaxCount

CatNo(c) ==
    CASE c = "direct_costs" -> 1
      [] c = "labor_costs" -> 2
      [] c = "machine_op_costs" -> 3
      [] c = "material_costs" -> 4
      [] c = "machine_costs" -> 5

\* The array from + 1, from + 2, ..., from + n: every index weighs
\* differently, so an index skipped, repeated or exchanged changes a sum.
Ramp(n, from) == [i \in 1 .. n |-> Fx(from + i)]

\* The unit-cost array of category c in shape v: a level v * CatNo(c) with a
\* period-3 ripple.  Shape -1 has negative costs, shape 0 has zeros.
CostArray(n, c, v) ==
    [i \in 1 .. n |-> Fx(v * CatNo(c) + ((i + CatNo(c)) % 3))]

SettingsSet ==
    {denidom_default_settings,
     [overhead_rate |-> Hundredths(50), profit_rate |-> Hundredths(25),
      vat_rate |-> Hundredths(10), index |-> Fx(2)],
     [overhead_rate |-> Hundredths(12), profit_rate |-> Hundredths(8),
      vat_rate |-> Hundredths(20), index |-> Fx(-1)]}

Memory(count, v, settings) ==
    [quantities |-> Ramp(count, IF v < 0 THEN -3 ELSE 0),
     direct_costs |-> CostArray(count, "direct_costs", v),
     labor_costs |-> CostArray(count, "labor_costs", v),
     machine_op_costs |-> CostArray(count, "machine_op_costs", v),
     material_costs |-> CostArray(count, "material_costs", v),
     machine_costs |-> CostArray(count, "machine_costs", v),
     coefficients |-> [i \in 1 .. count |-> Fx(10)],
     count |-> count, settings |-> settings]

\* The worked scenario of the specification.
ScenarioMemory ==
    [quantities |-> <<Fx(1), Fx(2)>>,
     direct_costs |-> <<Fx(100), Fx(50)>>,
     labor_costs |-> <<Fx(10), Fx(10)>>,
     machine_op_costs |-> <<0, 0>>,
     material_costs |-> <<0, 0>>,
     machine_costs |-> <<0, 0>>,
     coefficients |-> <<Fx(10), Fx(10)>>,
     count |-> 2, settings |-> denidom_default_settings]

\* The worked example of the elementwise kernel.
ItemsExampleMemory ==
    [quantities |-> <<Fx(2), Fx(3), Fx(4), Fx(5)>>,
     direct_costs |-> <<Fx(1), Fx(1), Fx(1), Fx(1)>>,
     labor_costs |-> <<0, 0, 0, 0>>,
     machine_op_costs |-> <<0, 0, 0, 0>>,
     material_costs |-> <<0, 0, 0, 0>>,
     machine_costs |-> <<0, 0, 0, 0>>,
     coefficients |-> <<Fx(10), Fx(10), Fx(10), Fx(10)>>,
     count |-> 4, settings |-> denidom_default_settings]

Memories ==
    {Memory(count, v, settings) :
        count \in Counts, v \in Values, settings \in SettingsSet}
    \cup {ScenarioMemory, ItemsExampleMemory}

\* The output buffer is longer than count and pre-filled.
Slack == 2

Sentinel == Fx(-7)

FreshResults(count) == [i \in 1 .. count + Slack |-> Sentinel]

\* The arguments of the calls, taken from the caller's memory.
ItemsArgs(m, r) ==
    [quantities |-> m.quantities, unit_costs |-> m.direct_costs,
     coefficients |-> m.coefficients, results |-> r, count |-> m.count]

SumArgs(m) == [data |-> m.direct_costs, count |-> m.count]

DotArgs(m) == [a |-> m.quantities, b |-> m.labor_costs, count |-> m.count]

(***************************************************************************)
(* State: the build and processor, the caller's memory, and the last call  *)
(* with its outcome.                                                       *)
(***************************************************************************)
VARIABLES build, cpu, args, results, op, status, tier, used, result, sum,
          trace, threads

vars ==
    <<build, cpu, args, results, op, status, tier, used, result, sum, trace,
      threads>>

\* The threads of the process, and the frame of a thread that is in no call.
Threads == {"t1", "t2"}

IdleThread ==
    [pc |-> "idle", name |-> "none", count |-> 0, tier |-> "none",
     probed |-> << >>, used |-> {}, result |-> ZeroResult]

Hardware ==
    {h \in Builds \X (Cpus \cup {NoX86Cpu}) :
        IF HAS_X86_SIMD(h[1])
        THEN h[2] \in Cpus /\ (h[2].max_leaf < 7 => h[2].ebx7 = 2 ^ 5 + 2 ^ 16)
        ELSE h[2] = NoX86Cpu}

Init ==
    /\ \E h \in Hardware : build = h[1] /\ cpu = h[2]
    /\ args \in Memories
    /\ results = FreshResults(args.count)
    /\ op = "none"
    /\ status = "idle"
    /\ tier = "none"
    /\ used = {}
    /\ result = ZeroResult
    /\ sum = 0
    /\ trace = << >>
    /\ threads = [t \in Threads |-> IdleThread]

\* The call executes the instructions in out.used: it returns when the
\* processor has them all and is killed by SIGILL when it lacks one.
Faults(out) == ~(out.used \subseteq HwFeatures(build, cpu))

Call(name, t, out) ==
    /\ status # "sigill"
    /\ op' = name
    /\ tier' = t
    /\ used' = out.used
    /\ status' = IF Faults(out) THEN "sigill" ELSE "returned"
    /\ trace' = IF Faults(out) THEN << >> ELSE out.trace
    /\ UNCHANGED <<build, cpu, args, threads>>

EstimateCall(name, t, out) ==
    /\ Call(name, t, out)
    /\ result' = IF Faults(out) THEN ZeroResult ELSE out.result
    /\ sum' = 0
    /\ UNCHANGED results

ItemsCall(name, t, out) ==
    /\ Call(name, t, out)
    /\ results' = IF Faults(out) THEN results ELSE out.results
    /\ result' = ZeroResult
    /\ sum' = 0

SumCall(name, t, out) ==
    /\ Call(name, t, out)
    /\ sum' = IF Faults(out) THEN 0 ELSE out.sum
    /\ result' = ZeroResult
    /\ UNCHANGED results

CallEstimateScalar ==
    EstimateCall("calculate_estimate_scalar", "scalar",
                 calculate_estimate_scalar(args))

CallEstimateAvx2 ==
    EstimateCall("calculate_estimate_avx2", "avx2",
                 calculate_estimate_avx2(build, args))

CallEstimateAvx512 ==
    EstimateCall("calculate_estimate_avx512", "avx512",
                 calculate_estimate_avx512(build, args))

CallEstimateAuto ==
    LET out == calculate_estimate_auto(build, cpu, args)
    IN  EstimateCall("calculate_estimate_auto", out.tier, out)

CallItemsAvx2 ==
    ItemsCall("calculate_items_avx2", "avx2",
              calculate_items_avx2(build, ItemsArgs(args, results)))

CallItemsAvx512 ==
    ItemsCall("calculate_items_avx512", "avx512",
              calculate_items_avx512(build, ItemsArgs(args, results)))

CallFastSumAvx2 ==
    SumCall("fast_sum_avx2", "avx2", fast_sum_avx2(build, SumArgs(args)))

CallFastSumAvx512 ==
    SumCall("fast_sum_avx512", "avx512",
            fast_sum_avx512(build, SumArgs(args)))

CallDotProduct ==
    SumCall("dot_product_simd", "avx2",
            dot_product_simd(build, DotArgs(args)))

Next ==
    \/ CallEstimateScalar
    \/ CallEstimateAvx2
    \/ CallEstimateAvx512
    \/ CallEstimateAuto
    \/ CallItemsAvx2
    \/ CallItemsAvx512
    \/ CallFastSumAvx2
    \/ CallFastSumAvx512
    \/ CallDotProduct

Spec == Init /\ [][Next]_vars

(***************************************************************************)
(* Concurrent callers.  Every thread calls the estimate entry points on    *)
(* the caller's arrays with a count of its own; the arrays are not written *)
(* during the calls.  A call is a sequence of steps of its thread: each    *)
(* CPUID probe of calculate_estimate_auto is one step and the kernel it    *)
(* forwards to is one step.  The library has no file-scope or static       *)
(* variable, so all a call reads and writes beside the caller's arrays is  *)
(* in the frame threads[t] of its thread.                                  *)
(***************************************************************************)
TierOps ==
    {"calculate_estimate_scalar", "calculate_estimate_avx2",
     "calculate_estimate_avx512"}

EstimateOps == TierOps \cup {"calculate_estimate_auto"}

\* The explicit tier entry point of name t.
ExplicitTier(t, b, a) ==
    CASE t = "avx512" -> calculate_estimate_avx512(b, a)
      [] t = "avx2" -> calculate_estimate_avx2(b, a)
      [] t = "scalar" -> calculate_estimate_scalar(a)

ThreadCounts == {3, 6, MaxCount}

SharedMemories == {Memory(MaxCount, MaxVal, s) : s \in SettingsSet}

TierOf(name) ==
    CASE name = "calculate_estimate_scalar" -> "scalar"
      [] name = "calculate_estimate_avx2" -> "avx2"
      [] name = "calculate_estimate_avx512" -> "avx512"
      [] name = "calculate_estimate_auto" -> "none"

\* The arguments of the call with the count kept in one slot for the whole
\* process: a call sees the largest count of the calls in progress.
ThreadArgs_shared(t) ==
    LET busy == {u \in Threads : threads[u].pc # "idle"}
        n == CHOOSE k \in {threads[u].count : u \in busy} :
                 \A u \in busy : threads[u].count <= k
    IN  [args EXCEPT !.count = n]

\* The arguments of the call of thread t: the caller's arrays and settings
\* and the count passed by this call.
ThreadArgs(t) == [args EXCEPT !.count = threads[t].count]

Alive == \A u \in Threads : threads[u].pc # "sigill"

\* Thread t enters entry point `name` with count n.
Begin(t, name, n) ==
    /\ Alive
    /\ threads[t].pc \in {"idle", "returned"}
    /\ threads' = [threads EXCEPT ![t] =
           [IdleThread EXCEPT
               !.pc = IF name = "calculate_estimate_auto"
                      THEN "probe_avx512" ELSE "kernel",
               !.name = name, !.count = n, !.tier = TierOf(name)]]

\* "if (denidom_has_avx512())" of calculate_estimate_auto.
AutoProbeAvx512(t) ==
    /\ Alive
    /\ threads[t].pc = "probe_avx512"
    /\ threads' = [threads EXCEPT ![t] =
           [@ EXCEPT
               !.probed = Append(@, "avx512"),
               !.pc = IF denidom_has_avx512(build, cpu)
                      THEN "kernel" ELSE "probe_avx2",
               !.tier = IF denidom_has_avx512(build, cpu)
                        THEN "avx512" ELSE "none"]]

\* "if (denidom_has_avx2())" of calculate_estimate_auto, else the scalar
\* fallback.
AutoProbeAvx2(t) ==
    /\ Alive
    /\ threads[t].pc = "probe_avx2"
    /\ threads' = [threads EXCEPT ![t] =
           [@ EXCEPT
               !.probed = Append(@, "avx2"),
               !.pc = "kernel",
               !.tier = IF denidom_has_avx2(build, cpu)
                        THEN "avx2" ELSE "scalar"]]

\* The tier kernel runs on the arguments of the call and returns, or the
\* process is killed by SIGILL.
RunKernel(t) ==
    /\ Alive
    /\ threads[t].pc = "kernel"
    /\ LET out == ExplicitTier(threads[t].tier, build, ThreadArgs(t))
       IN  threads' = [threads EXCEPT ![t] =
               [@ EXCEPT
                   !.pc = IF Faults(out) THEN "sigill" ELSE "returned",
                   !.used = out.used,
                   !.result = IF Faults(out) THEN ZeroResult
                              ELSE out.result]]

ThreadStep(t) ==
    \/ \E name \in EstimateOps, n \in ThreadCounts : Begin(t, name, n)
    \/ AutoProbeAvx512(t)
    \/ AutoProbeAvx2(t)
    \/ RunKernel(t)

InitThreads ==
    /\ \E h \in Hardware : build = h[1] /\ cpu = h[2]
    /\ args \in SharedMemories
    /\ results = FreshResults(args.count)
    /\ op = "none"
    /\ status = "idle"
    /\ tier = "none"
    /\ used = {}
    /\ result = ZeroResult
    /\ sum = 0
    /\ trace = << >>
    /\ threads = [t \in Threads |-> IdleThread]

NextThreads ==
    /\ \E t \in Threads : ThreadStep(t)
    /\ UNCHANGED <<build, cpu, args, results, op, status, tier, used, result,
                   sum, trace>>

SpecThreads == InitThreads /\ [][NextThreads]_vars

(***************************************************************************)
(* Properties.                                                             *)
(***************************************************************************)
Returned == status = "returned"

\* The sequential reference: the sum over i in [0, n) of q[i] * c[i].
RECURSIVE RefSum(_, _, _)
RefSum(q, c, n) ==
    IF n = 0 THEN 0 ELSE RefSum(q, c, n - 1) + Mul(q[n], c[n])

\* How many entries of the access log cover index i.
TimesCovered(t, i) ==
    Cardinality({k \in 1 .. Len(t) : t[k].idx <= i /\ i < t[k].idx + t[k].w})

\* The access log covers every index of [0, n) exactly once and nothing else.
CoversOnce(t, n) ==
    /\ \A i \in 0 .. (n - 1) : TimesCovered(t, i) = 1
    /\ \A k \in 1 .. Len(t) : t[k].idx >= 0 /\ t[k].idx + t[k].w <= n

LoopsOf(t) == {t[k].loop : k \in 1 .. Len(t)}

\* C1: for every count in 0 .. MaxCount, each explicit tier returns five
\* category totals equal to the sequential reference sum times
\* settings.index, and its main chunks, narrower remainder chunk and scalar
\* tail together touch every index of [0, count) exactly once.
C1_RemainderCorrect ==
    (op \in TierOps /\ Returned) =>
        /\ \A c \in Category :
               result[c] = Mul(RefSum(args.quantities, args[c], args.count),
                               args.settings.index)
        /\ CoversOnce(trace, args.count)

\* The 8-wide kernel has run its main loop, its 4-wide remainder loop and its
\* scalar tail on 13 items.
C1_Witness ==
    /\ op = "calculate_estimate_avx512"
    /\ Returned
    /\ args.count = 13
    /\ LoopsOf(trace) = {"avx512", "avx512_rem", "avx512_tail"}
    /\ result.direct_costs # 0

\* C2: whichever tier produced the returned record, for the same arrays,
\* count and settings the scalar, AVX2 and AVX-512 entry points of every
\* build variant give the same ten fields.
C2_TierEquivalence ==
    (op \in TierOps /\ Returned) =>
        \A b \in Builds :
            /\ result = calculate_estimate_scalar(args).result
            /\ result = calculate_estimate_avx2(b, args).result
            /\ result = calculate_estimate_avx512(b, args).result

\* The scalar tier has returned a non-zero record for 15 items, a count at
\* which the three kernels split the indices differently.
C2_Witness ==
    /\ op = "calculate_estimate_scalar"
    /\ Returned
    /\ args.count = 15
    /\ result.total # 0
    /\ Len(calculate_estimate_avx512("x86_avx512f", args).trace) = 5
    /\ Len(calculate_estimate_avx2("x86", args).trace) = 6

\* C3: calculate_estimate_auto forwards to the AVX-512 tier if
\* denidom_has_avx512() holds, else to the AVX2 tier if denidom_has_avx2()
\* holds, else to the scalar tier, and its outcome is the outcome of calling
\* that tier directly with the same arguments.
C3_AutoSelection ==
    op = "calculate_estimate_auto" =>
        LET t == IF denidom_has_avx512(build, cpu) THEN "avx512"
                 ELSE IF denidom_has_avx2(build, cpu) THEN "avx2"
                 ELSE "scalar"
            direct == ExplicitTier(t, build, args)
        IN  /\ tier = t
            /\ used = direct.used
            /\ Returned <=> direct.used \subseteq HwFeatures(build, cpu)
            /\ Returned => result = direct.result /\ trace = direct.trace

\* The dispatcher has forwarded to the AVX-512 tier on a processor that
\* reports both AVX-512F and AVX2, and the 8-wide kernel has run.
C3_Witness ==
    /\ op = "calculate_estimate_auto"
    /\ Returned
    /\ tier = "avx512"
    /\ denidom_has_avx2(build, cpu)
    /\ "AVX512F" \in used
    /\ result.total # 0

\* What the three probes report.
ProbeReported(b, c) ==
    (IF denidom_has_avx512(b, c) THEN {"AVX512F"} ELSE {})
    \cup (IF denidom_has_avx2(b, c) THEN {"AVX2"} ELSE {})
    \cup (IF denidom_has_fma(b, c) THEN {"FMA"} ELSE {})

\* C4: for every combination of the three probe answers,
\* calculate_estimate_auto completes with the correct result, and the kernel
\* it runs uses only instruction extensions the probes report as present.
C4_AutoNeverFaults ==
    op = "calculate_estimate_auto" =>
        /\ Returned
        /\ used \subseteq ProbeReported(build, cpu)
        /\ result = calculate_estimate_scalar(args).result

\* C5: in every tier and on every delegation path the returned record has
\* each category total equal to its raw sum times settings.index (the raw sum
\* itself when index is 1), overhead and profit equal to labor_costs +
\* machine_op_costs times their rates, subtotal = direct_costs + overhead +
\* profit, vat = subtotal * vat_rate and total = subtotal + vat; the worked
\* scenario gives 200, 30, 3.6, 2.4, 206, 41.2 and 247.2.
C5_Aggregation ==
    (op \in EstimateOps /\ Returned) =>
        LET s == args.settings
            labor_total == result.labor_costs + result.machine_op_costs
        IN  /\ \A c \in Category :
                   LET raw == RefSum(args.quantities, args[c], args.count)
                   IN  /\ result[c] = Mul(raw, s.index)
                       /\ s.index = Fx(1) => result[c] = raw
            /\ result.overhead = Mul(labor_total, s.overhead_rate)
            /\ result.profit = Mul(labor_total, s.profit_rate)
            /\ result.subtotal
                   = result.direct_costs + result.overhead + result.profit
            /\ result.vat = Mul(result.subtotal, s.vat_rate)
            /\ result.total = result.subtotal + result.vat
            /\ args = ScenarioMemory =>
                   /\ result.direct_costs = Fx(200)
                   /\ result.labor_costs = Fx(30)
                   /\ result.overhead = Hundredths(360)
                   /\ result.profit = Hundredths(240)
                   /\ result.subtotal = Fx(206)
                   /\ result.vat = Hundredths(4120)
                   /\ result.total = Hundredths(24720)

\* The widest tier has returned the worked scenario, which it delegated down
\* to the scalar kernel.
C5_Witness ==
    /\ op = "calculate_estimate_avx512"
    /\ Returned
    /\ args = ScenarioMemory
    /\ LoopsOf(trace) = {"scalar"}
    /\ result.total = Hundredths(24720)

\* C6: with count = 0 every estimate entry point returns, its ten fields are
\* all 0 whatever the settings, and it reads no element of any array.
C6_ZeroCount ==
    (op \in EstimateOps /\ args.count = 0) =>
        /\ Returned
        /\ result = ZeroResult
        /\ trace = << >>

\* The dispatcher has been called with no items and settings other than the
\* defaults.
C6_Witness ==
    /\ op = "calculate_estimate_auto"
    /\ args.count = 0
    /\ args.settings # denidom_default_settings
    /\ Returned

\* The entry point of name n.
EstimateEntry(n, b, c, a) ==
    CASE n = "calculate_estimate_scalar" -> calculate_estimate_scalar(a)
      [] n = "calculate_estimate_avx2" -> calculate_estimate_avx2(b, a)
      [] n = "calculate_estimate_avx512" -> calculate_estimate_avx512(b, a)
      [] n = "calculate_estimate_auto" -> calculate_estimate_auto(b, c, a)

\* The memory a with every element of the five unit-cost arrays times k.
ScaleCosts(a, k) ==
    [f \in DOMAIN a |->
        IF f \in Category THEN [i \in 1 .. Len(a[f]) |-> k * a[f][i]]
        ELSE a[f]]

Factors == {-1, 0, 2, 3}

\* C7: in every tier, multiplying every element of the five unit-cost arrays
\* by k, with quantities, count and settings as they are, multiplies all ten
\* fields of the returned record by k.
C7_Linearity ==
    (op \in EstimateOps /\ Returned) =>
        \A k \in Factors :
            LET scaled == EstimateEntry(op, build, cpu, ScaleCosts(args, k))
            IN  \A f \in DOMAIN result : scaled.result[f] = k * result[f]

\* The 4-wide tier has returned a record with non-zero totals and markups for
\* a count that leaves a scalar tail.
C7_Witness ==
    /\ op = "calculate_estimate_avx2"
    /\ Returned
    /\ "FMA" \in used
    /\ args.count = 7
    /\ result.material_costs # 0
    /\ result.overhead # 0
    /\ result.vat # 0

ItemsOps == {"calculate_items_avx2", "calculate_items_avx512"}

\* C8: for every count the elementwise kernels leave results[i] =
\* quantities[i] * unit_costs[i] * coefficients[i] for every i in [0, count),
\* each index written by exactly one loop; [2,3,4,5] * [1,1,1,1] *
\* [10,10,10,10] gives [20,30,40,50].
C8_Items ==
    (op \in ItemsOps /\ Returned) =>
        /\ \A i \in 1 .. args.count :
               results[i] = Mul(Mul(args.quantities[i], args.direct_costs[i]),
                                args.coefficients[i])
        /\ CoversOnce(trace, args.count)
        /\ args = ItemsExampleMemory =>
               SubSeq(results, 1, 4) = <<Fx(20), Fx(30), Fx(40), Fx(50)>>

\* The 8-wide elementwise kernel has written 13 items with its 8-wide loop,
\* its 4-wide loop and its scalar loop.
C8_Witness ==
    /\ op = "calculate_items_avx512"
    /\ Returned
    /\ args.count = 13
    /\ LoopsOf(trace) = {"avx512", "avx512_rem", "avx512_tail"}
    /\ results[13] # Sentinel

\* The sum over i in [0, n) of d[i].
RECURSIVE RefPlainSum(_, _)
RefPlainSum(d, n) == IF n = 0 THEN 0 ELSE RefPlainSum(d, n - 1) + d[n]

SumOps == {"fast_sum_avx2", "fast_sum_avx512"}

\* C9: for every count fast_sum_avx2 and fast_sum_avx512 return the sum of
\* data[0..count) and dot_product_simd returns the sum of a[i] * b[i]; the
\* chunk loop and the scalar tail touch each index exactly once, and count =
\* 0 gives 0.
C9_SumAndDot ==
    /\ (op \in SumOps /\ Returned) =>
           /\ sum = RefPlainSum(args.direct_costs, args.count)
           /\ CoversOnce(trace, args.count)
           /\ args.count = 0 => sum = 0
    /\ (op = "dot_product_simd" /\ Returned) =>
           /\ sum = RefSum(args.quantities, args.labor_costs, args.count)
           /\ CoversOnce(trace, args.count)
           /\ args.count = 0 => sum = 0

\* The 8-wide sum has returned a non-zero sum of 11 items: one full chunk
\* and a scalar tail of three.
C9_Witness ==
    /\ op = "fast_sum_avx512"
    /\ Returned
    /\ "AVX512F" \in used
    /\ args.count = 11
    /\ Len(trace) = 4
    /\ sum # 0

\* Every quantity and unit cost in [0, count) is >= 0.
NonNegativeInputs(a) ==
    \A i \in 1 .. a.count :
        /\ a.quantities[i] >= 0
        /\ \A c \in Category : a[c][i] >= 0

NonNegativeTotals(r) == \A c \in Category : r[c] >= 0

\* C10 as stated: with non-negative quantities and unit costs the five
\* category totals are >= 0 for every settings record.
C10_NonNegativeAnySettings ==
    (op \in EstimateOps /\ Returned /\ NonNegativeInputs(args)) =>
        NonNegativeTotals(result)

\* C10, amended: with non-negative quantities and unit costs and
\* settings.index >= 0 the five category totals are >= 0.
C10_NonNegative ==
    (op \in EstimateOps /\ Returned /\ NonNegativeInputs(args)
        /\ args.settings.index >= 0) =>
        NonNegativeTotals(result)

\* The 8-wide tier has returned positive totals for non-negative inputs and
\* a positive index.
C10_Witness ==
    /\ op = "calculate_estimate_avx512"
    /\ Returned
    /\ "AVX512F" \in used
    /\ NonNegativeInputs(args)
    /\ args.settings.index > 0
    /\ \A c \in Category : result[c] > 0

\* C12: a tier called with count below its width hands the whole call to the
\* next tier down and runs no vector loop of its own: the 8-wide entry point
\* with count < 8 gives exactly what the 4-wide one gives, the 4-wide entry
\* point with count < 4 exactly what the scalar one gives, so the widest
\* tier with count < 4 ends in the scalar kernel.
C12_Delegation ==
    /\ (op = "calculate_estimate_avx512" /\ args.count < 8) =>
           LET down == calculate_estimate_avx2(build, args)
           IN  /\ used = down.used
               /\ "AVX512F" \notin used
               /\ Returned => result = down.result /\ trace = down.trace
               /\ args.count < 4 => used = {}
               /\ (Returned /\ args.count < 4) => LoopsOf(trace) \subseteq {"scalar"}
    /\ (op = "calculate_estimate_avx2" /\ args.count < 4) =>
           LET down == calculate_estimate_scalar(args)
           IN  /\ used = {}
               /\ Returned
               /\ result = down.result
               /\ trace = down.trace
               /\ LoopsOf(trace) \subseteq {"scalar"}

\* The 8-wide entry point, compiled with AVX-512, has been called with 6
\* items and the 4-wide kernel has done the work.
C12_Witness ==
    /\ op = "calculate_estimate_avx512"
    /\ build = "x86_avx512f"
    /\ Returned
    /\ args.count = 6
    /\ LoopsOf(trace) = {"avx2", "avx2_tail"}
    /\ result.total # 0

\* The entries of the access log made by loop l.
EntriesOf(t, l) == {k \in 1 .. Len(t) : t[k].loop = l}

\* C13: every vector access of width W at index idx has idx + W <= count and
\* every scalar access an index < count, in every estimate, items, sum and
\* dot-product kernel; in the 8-wide estimate kernel the 4-wide remainder
\* loop runs at most one chunk and the scalar tail at most 3 indices.
C13_InBounds ==
    Returned =>
        /\ \A k \in 1 .. Len(trace) :
               /\ trace[k].idx >= 0
               /\ trace[k].idx + trace[k].w <= args.count
               /\ trace[k].w \in {1, 4, 8}
        /\ op \in EstimateOps =>
               /\ Cardinality(EntriesOf(trace, "avx512_rem")) <= 1
               /\ Cardinality(EntriesOf(trace, "avx512_tail")) <= 3

\* The 8-wide estimate kernel has run 15 items: one 8-wide chunk, one 4-wide
\* remainder chunk ending at index 12 and a scalar tail of 3.
C13_Witness ==
    /\ op = "calculate_estimate_avx512"
    /\ Returned
    /\ args.count = 15
    /\ Cardinality(EntriesOf(trace, "avx512_rem")) = 1
    /\ Cardinality(EntriesOf(trace, "avx512_tail")) = 3
    /\ \E k \in 1 .. Len(trace) : trace[k].w = 4 /\ trace[k].idx + 4 = 12

\* C14: no call changes the input arrays, the count or the settings; only
\* the elementwise kernels write the output buffer, and they leave every
\* element at index >= count as it was before the call.
C14_Frame ==
    [][/\ args' = args
       /\ Len(results') = Len(results)
       /\ \A i \in 1 .. Len(results) : i > args.count => results'[i] = results[i]
       /\ op' \notin ItemsOps => results' = results]_vars

\* The 8-wide elementwise kernel has written 5 items with its 4-wide loop and
\* scalar loop, and the cells past count still hold what they held.
C14_Witness ==
    /\ op = "calculate_items_avx512"
    /\ Returned
    /\ args.count = 5
    /\ results[5] # Sentinel
    /\ results[6] = Sentinel
    /\ results[7] = Sentinel

\* The memory a with the material and machine unit-cost arrays times k.
ScaleMaterialAndMachine(a, k) ==
    [f \in DOMAIN a |->
        IF f \in {"material_costs", "machine_costs"}
        THEN [i \in 1 .. Len(a[f]) |-> k * a[f][i]]
        ELSE a[f]]

UnaffectedFields ==
    {"direct_costs", "labor_costs", "machine_op_costs", "overhead", "profit",
     "subtotal", "vat", "total"}

\* C15: in every tier, a call that differs only in the contents of
\* material_costs[] and machine_costs[] returns the same direct_costs,
\* labor_costs, machine_op_costs, overhead, profit, subtotal, vat and total.
C15_MaterialMachineIsolated ==
    (op \in EstimateOps /\ Returned) =>
        \A k \in {0, 2} :
            LET other == EstimateEntry(op, build, cpu,
                                       ScaleMaterialAndMachine(args, k))
            IN  \A f \in UnaffectedFields : other.result[f] = result[f]

\* The 8-wide tier has returned a record whose material and machine totals
\* are non-zero, so that changing the two arrays changes those two fields.
C15_Witness ==
    /\ op = "calculate_estimate_avx512"
    /\ Returned
    /\ "AVX512F" \in used
    /\ result.material_costs # 0
    /\ result.machine_costs # 0
    /\ result.total # 0
    /\ calculate_estimate_avx512(build, ScaleMaterialAndMachine(args, 2))
           .result.material_costs = 2 * result.material_costs

\* The tier the two probes of this build on this processor select.
SelectedTier ==
    IF denidom_has_avx512(build, cpu) THEN "avx512"
    ELSE IF denidom_has_avx2(build, cpu) THEN "avx2"
    ELSE "scalar"

\* C11: in every interleaving of calls from several threads, the tier
\* selected and the record returned by a call depend only on the call's own
\* arguments and the probe answers: the record is the one the entry point
\* gives when called alone with these arguments, the tier is the one the
\* probes select whatever the data, and every call of the dispatcher has
\* queried the probes itself.
C11_Stateless ==
    \A t \in Threads :
        threads[t].pc = "returned" =>
            LET alone == EstimateEntry(threads[t].name, build, cpu,
                                       [args EXCEPT !.count = threads[t].count])
            IN  /\ threads[t].result = alone.result
                /\ threads[t].used = alone.used
                /\ threads[t].name = "calculate_estimate_auto" =>
                       /\ threads[t].tier = SelectedTier
                       /\ threads[t].tier = alone.tier
                       /\ threads[t].probed =
                              IF denidom_has_avx512(build, cpu)
                              THEN <<"avx512">> ELSE <<"avx512", "avx2">>
                /\ threads[t].name # "calculate_estimate_auto" =>
                       threads[t].tier = TierOf(threads[t].name)

\* One thread has returned from the dispatcher with 6 items while the other
\* is inside a tier kernel call with another count.
C11_Witness ==
    /\ threads["t1"].pc = "returned"
    /\ threads["t1"].name = "calculate_estimate_auto"
    /\ threads["t1"].count = 6
    /\ threads["t1"].tier = "avx2"
    /\ threads["t1"].result.total # 0
    /\ threads["t2"].pc = "kernel"
    /\ threads["t2"].name = "calculate_estimate_scalar"
    /\ threads["t2"].count = MaxCount

====
